---- MODULE Spec2Model ----
(***************************************************************************)
(* A model of lyra/parser.hpp: parser_customization, parse_state,          *)
(* parser_base and bound_parser.                                           *)
(*                                                                         *)
(* Two parser objects are modelled.  "bound" is a bound_parser<DerivedT>   *)
(* (fields m_ref, m_hint, m_description, m_cardinality); "plain" is a      *)
(* parser_base subclass that overrides nothing but the pure virtual        *)
(* parse.  Every public member function is one action; the arguments and   *)
(* the return value of the most recent call are kept in call / ret.        *)
(***************************************************************************)
EXTENDS Integers, Sequences, FiniteSets, TLC

\* ------------------------------------------------------------------ bounds
\* Width of size_t in the model: all size_t arithmetic is done modulo
\* 2^SIZE_BITS.
SIZE_BITS == 2

\* Longest argument list handed to parse(args, customize).
MaxArgs == 2

\* Most bind() calls on the bound reference over a run.
MaxBinds == 3

SIZE_MOD == 2 ^ SIZE_BITS

\* The arguments tried for cardinality(n) and cardinality(n, m): the small
\* counts and the largest size_t.
Counts == {0, 1, 2, SIZE_MOD - 1}

\* ------------------------------------------------------- customization
\* struct default_parser_customization: token_delimiters() returns " =",
\* option_prefix() returns "-".  A customization object is the record of
\* what its two virtual functions return, as character sequences.
default_parser_customization ==
    [token_delimiters |-> <<" ", "=">>, option_prefix |-> <<"-">>]

\* A user-written parser_customization (the interface is pure virtual).
user_parser_customization ==
    [token_delimiters |-> <<":">>, option_prefix |-> <<"/">>]

Customizations == {default_parser_customization, user_parser_customization}

\* ------------------------------------------------------------ collaborators
\* lyra::args: an executable name and the argument strings that follow it.
\* An argument is a sequence of characters.
ExeNames == {"app"}

ArgStrings == {<<"-", "o">>, <<"/", "o">>, <<"x">>}

RECURSIVE SeqsUpTo(_, _)
SeqsUpTo(S, n) ==
    IF n = 0 THEN {<<>>}
    ELSE LET shorter == SeqsUpTo(S, n - 1)
         IN  shorter \cup {Append(s, x) : s \in {t \in shorter : Len(t) = n - 1}, x \in S}

Args == [exe_name : ExeNames, list : SeqsUpTo(ArgStrings, MaxArgs)]

\* detail::token_iterator(args, delimiters, prefix): a cursor over the
\* arguments that remembers the two character sets it was built with.
token_iterator(args, delimiters, prefix) ==
    [args |-> args.list, delimiters |-> delimiters, prefix |-> prefix, pos |-> 0]

NoTokens == [args |-> <<>>, delimiters |-> <<>>, prefix |-> <<>>, pos |-> 0]

\* detail::BoundRef and its two implementations, each with the destination
\* it refers to: dest is the sequence of values the destination holds (for
\* a callback, the values it was invoked with) and binds counts the bind()
\* calls made on the reference.  Only a value reference to a container
\* reports isContainer().
BoundRefs ==
    { [kind |-> "BoundValueRef", container |-> FALSE, dest |-> <<>>, binds |-> 0],
      [kind |-> "BoundValueRef", container |-> TRUE, dest |-> <<>>, binds |-> 0],
      [kind |-> "BoundLambda", container |-> FALSE, dest |-> <<>>, binds |-> 0] }

isContainer(ref) == ref.container

\* BoundRef::bind(v): a container appends, a single value is overwritten,
\* a callback is invoked.
bind(ref, v) ==
    [ref EXCEPT !.dest = IF ref.kind = "BoundValueRef" /\ ~ref.container
                         THEN <<v>>
                         ELSE Append(ref.dest, v),
                !.binds = ref.binds + 1]

RECURSIVE bind_times(_, _, _)
bind_times(ref, v, k) == IF k = 0 THEN ref ELSE bind_times(bind(ref, v), v, k - 1)

\* ------------------------------------------------------------ parse_state
\* detail::parse_state(type, remainingTokens) wrapped in a successful
\* basic_result.
parse_state(type, remainingTokens) ==
    [ok |-> TRUE, type |-> type, remainingTokens |-> remainingTokens]

NoResult == [ok |-> FALSE, type |-> "none", remainingTokens |-> NoTokens]

\* ------------------------------------------------------------ parser_base
\* parser_base::validate(): result::ok().
parser_base_validate == "ok"

\* Variant of parser_base::cardinality() that returns (0, 0).
parser_base_cardinality_zero == <<0, 0>>

\* parser_base::cardinality(): std::make_tuple(0, 1).
parser_base_cardinality == <<0, 1>>

\* parser_base::get_usage_text(): "".
parser_base_get_usage_text == ""

\* parser_base::get_help_text(): {}.
parser_base_get_help_text == <<>>

\* parser_base::clone(): nullptr.
parser_base_clone == "nullptr"

\* Variant of cardinality_count() that counts both ends: max - min + 1.
cardinality_count_inclusive(c) == (c[2] - c[1] + 1) % SIZE_MOD

\* Variant of cardinality_count() that saturates at zero instead of wrapping.
cardinality_count_saturating(c) == IF c[2] >= c[1] THEN c[2] - c[1] ELSE 0

\* parser_base::cardinality_count(): std::get<1>(c) - std::get<0>(c) on
\* size_t, that is modulo 2^w.
cardinality_count(c) == (c[2] - c[1]) % SIZE_MOD

\* parser_base::is_optional().
is_optional(c) == (c[1] = 0) /\ (c[2] > 0)

\* ----------------------------------------------------------- bound_parser
\* Variant of the constructor that ignores isContainer().
bound_parser_ctor_single(ref, hint) ==
    [m_ref |-> ref, m_hint |-> hint, m_description |-> "", m_cardinality |-> <<0, 1>>]

\* The constructors: bound_parser(T& ref, hint) and bound_parser(LambdaT
\* const& ref, hint) both delegate to bound_parser(shared_ptr<BoundRef>),
\* which picks the cardinality from isContainer(), and then set m_hint.
\* m_description is default-constructed.
bound_parser_ctor(ref, hint) ==
    [m_ref |-> ref,
     m_hint |-> hint,
     m_description |-> "",
     m_cardinality |-> IF isContainer(ref) THEN <<0, 0>> ELSE <<0, 1>>]

\* Variant of operator() that assigns the hint instead of the description.
operator_call_hint(p, description) ==
    [this |-> [p EXCEPT !.m_hint = description], returns |-> "this"]

\* Variant of cardinality(n, m) that stores the pair in order.
cardinality_n_m_ordered(p, n, m) ==
    [this |-> [p EXCEPT !.m_cardinality = IF n <= m THEN <<n, m>> ELSE <<m, n>>],
     returns |-> "this"]

\* What a fluent member function does to the parser p it is called on:
\* this is p after the call, returns names the object the returned
\* reference designates.
\* operator()(description)
operator_call(p, description) ==
    [this |-> [p EXCEPT !.m_description = description], returns |-> "this"]

\* cardinality(size_t n, size_t m)
cardinality_n_m(p, n, m) ==
    [this |-> [p EXCEPT !.m_cardinality = <<n, m>>], returns |-> "this"]

\* cardinality(size_t n)
cardinality_n(p, n) ==
    [this |-> [p EXCEPT !.m_cardinality = <<n, n>>], returns |-> "this"]

\* Variant of optional() with the two counts exchanged.
optional_swapped(p) == cardinality_n_m(p, 1, 0)

\* optional()
optional(p) == cardinality_n_m(p, 0, 1)

\* required()
required(p) == cardinality_n_m(p, 1, 1)

\* bound_parser::cardinality() const override
bound_parser_cardinality(p) == p.m_cardinality

\* bound_parser::hint() const
hint(p) == p.m_hint

\* --------------------------------------------------- the two parser objects
Objects == {"plain", "bound"}

\* Virtual dispatch of cardinality(): bound_parser overrides it, the plain
\* parser does not.
cardinality(who, p) ==
    IF who = "bound" THEN bound_parser_cardinality(p) ELSE parser_base_cardinality

\* validate(), get_usage_text(), get_help_text() and clone() are overridden
\* by neither object.
validate(who, p) == parser_base_validate

\* ------------------------------------------------- the concrete parse pass
\* An argument is an option token when its first character is one of the
\* prefix characters the token stream was built with.
is_option(tokens, arg) ==
    /\ Len(arg) > 0
    /\ \E i \in 1 .. Len(tokens.prefix) : tokens.prefix[i] = arg[1]

\* The bound parser stands for an option named "o".
matches(tokens, arg) == is_option(tokens, arg) /\ Tail(arg) = <<"o">>

\* The number of consecutive tokens, from the cursor on, that the option
\* matches.
RECURSIVE match_count(_, _)
match_count(tokens, pos) ==
    IF pos >= Len(tokens.args) THEN 0
    ELSE IF matches(tokens, tokens.args[pos + 1])
         THEN 1 + match_count(tokens, pos + 1)
         ELSE 0

\* The pure virtual parse(exe_name, tokens, customize) as implemented by
\* the two objects: the plain parser matches nothing; the bound parser
\* consumes the tokens it matches.  count is the number of matches.
virtual_parse(who, exe_name, tokens, customize) ==
    LET k == IF who = "bound" THEN match_count(tokens, tokens.pos) ELSE 0
    IN  [count |-> k,
         result |-> IF k > 0
                    THEN parse_state("Matched", [tokens EXCEPT !.pos = tokens.pos + k])
                    ELSE parse_state("NoMatch", tokens)]

\* Variant of parse(args, customize) that builds the token stream with the
\* default customization's characters.
parse_args_default(args, customize) ==
    [method |-> "parse",
     exe_name |-> args.exe_name,
     tokens |-> token_iterator(args, default_parser_customization.token_delimiters,
                               default_parser_customization.option_prefix),
     customize |-> customize]

\* parser_base::parse(args, customize): the one virtual call it makes.
parse_args(args, customize) ==
    [method |-> "parse",
     exe_name |-> args.exe_name,
     tokens |-> token_iterator(args, customize.token_delimiters, customize.option_prefix),
     customize |-> customize]

\* ------------------------------------------------------------------ state
VARIABLES
    parser,      \* the bound parser's fields m_ref, m_hint, m_description, m_cardinality
    parsed,      \* a parse pass over the bound parser has completed
    observed,    \* the number of matches of the bound parser in the last pass
    configured,  \* the most recent cardinality-setting call: its name and arguments
    call,        \* the most recent call: member function, object, arguments
    ret,         \* what that call returned
    dispatched   \* the virtual parse / validate calls that call made

vars == <<parser, parsed, observed, configured, call, ret, dispatched>>

Hints == {"name"}

Descriptions == {"first"}

NoArgs == [exe_name |-> "", list |-> <<>>]

NoCall ==
    [op |-> "ctor", who |-> "bound", n |-> 0, m |-> 0, description |-> "",
     args |-> NoArgs, customize |-> default_parser_customization]

NoObs ==
    [cardinality |-> <<0, 0>>, cardinality_count |-> 0, is_optional |-> FALSE,
     get_usage_text |-> "", get_help_text |-> <<>>, clone |-> "nullptr", hint |-> ""]

NoRet == [returns |-> "none", result |-> NoResult, status |-> "none", obs |-> NoObs]

Init ==
    /\ \E ref \in BoundRefs, h \in Hints : parser = bound_parser_ctor(ref, h)
    /\ parsed = FALSE
    /\ observed = 0
    /\ configured = [op |-> "none", n |-> 0, m |-> 0]
    /\ call = NoCall
    /\ ret = NoRet
    /\ dispatched = <<>>

\* -------------------------------------------------------------- operations
Fluent(r, c) ==
    /\ parser' = r.this
    /\ ret' = [NoRet EXCEPT !.returns = r.returns]
    /\ call' = c
    /\ dispatched' = <<>>
    /\ UNCHANGED <<parsed, observed>>

Describe ==
    \E d \in Descriptions :
        /\ Fluent(operator_call(parser, d), [NoCall EXCEPT !.op = "operator()", !.description = d])
        /\ UNCHANGED configured

Optional ==
    /\ Fluent(optional(parser), [NoCall EXCEPT !.op = "optional"])
    /\ configured' = [op |-> "optional", n |-> 0, m |-> 0]

Required ==
    /\ Fluent(required(parser), [NoCall EXCEPT !.op = "required"])
    /\ configured' = [op |-> "required", n |-> 0, m |-> 0]

CardinalityN ==
    \E n \in Counts :
        /\ Fluent(cardinality_n(parser, n), [NoCall EXCEPT !.op = "cardinality(n)", !.n = n])
        /\ configured' = [op |-> "cardinality(n)", n |-> n, m |-> 0]

CardinalityNM ==
    \E n \in Counts, m \in Counts :
        /\ Fluent(cardinality_n_m(parser, n, m),
                  [NoCall EXCEPT !.op = "cardinality(n,m)", !.n = n, !.m = m])
        /\ configured' = [op |-> "cardinality(n,m)", n |-> n, m |-> m]

\* parse(args, customize) on the bound parser.
Parse ==
    \E who \in {"bound"}, args \in Args, customize \in Customizations :
        LET v == parse_args(args, customize)
            r == virtual_parse(who, v.exe_name, v.tokens, v.customize)
        IN  /\ parser.m_ref.binds + r.count <= MaxBinds
            /\ parser' = [parser EXCEPT !.m_ref = bind_times(parser.m_ref, "true", r.count)]
            /\ parsed' = (parsed \/ who = "bound")
            /\ observed' = IF who = "bound" THEN r.count ELSE observed
            /\ call' = [NoCall EXCEPT !.op = "parse", !.who = who, !.args = args,
                                      !.customize = customize]
            /\ ret' = [NoRet EXCEPT !.result = r.result]
            /\ dispatched' = <<v>>
            /\ UNCHANGED configured

\* validate() on either object.
Validate ==
    \E who \in Objects :
        /\ call' = [NoCall EXCEPT !.op = "validate", !.who = who]
        /\ ret' = [NoRet EXCEPT !.status = validate(who, parser)]
        /\ dispatched' = <<[method |-> "validate", exe_name |-> "", tokens |-> NoTokens,
                            customize |-> default_parser_customization]>>
        /\ UNCHANGED <<parser, parsed, observed, configured>>

\* The const accessors, called together on either object.
Observe ==
    \E who \in Objects :
        /\ call' = [NoCall EXCEPT !.op = "observe", !.who = who]
        /\ ret' = [NoRet EXCEPT !.obs =
                     [cardinality |-> cardinality(who, parser),
                      cardinality_count |-> cardinality_count(cardinality(who, parser)),
                      is_optional |-> is_optional(cardinality(who, parser)),
                      get_usage_text |-> parser_base_get_usage_text,
                      get_help_text |-> parser_base_get_help_text,
                      clone |-> parser_base_clone,
                      hint |-> IF who = "bound" THEN hint(parser) ELSE ""]]
        /\ dispatched' = <<>>
        /\ UNCHANGED <<parser, parsed, observed, configured>>

Next ==
    \/ Describe
    \/ Optional
    \/ Required
    \/ CardinalityN
    \/ CardinalityNM
    \/ Parse
    \/ Validate
    \/ Observe

Spec == Init /\ [][Next]_vars

\* ------------------------------------------------------------------ claims
Min == cardinality("bound", parser)[1]

Max == cardinality("bound", parser)[2]

\* A maximum of 0 on a container-bound parser denotes "unbounded".
Unbounded == Max = 0 /\ isContainer(parser.m_ref)

ObservedBound == call.op = "observe" /\ call.who = "bound"

\* C1: cardinality() of the bound parser is the pair set by the most recent
\* of required() (1,1), optional() (0,1), cardinality(n) (n,n) and
\* cardinality(n,m) (n,m), whatever was called before and whatever the
\* destination is.
C1_LastFluentCallDecides ==
    /\ configured.op = "required" => cardinality("bound", parser) = <<1, 1>>
    /\ configured.op = "optional" => cardinality("bound", parser) = <<0, 1>>
    /\ configured.op = "cardinality(n)" =>
           cardinality("bound", parser) = <<configured.n, configured.n>>
    /\ configured.op = "cardinality(n,m)" =>
           cardinality("bound", parser) = <<configured.n, configured.m>>

\* optional() called on a container-bound parser that was described, parsed
\* with and observed since.
C1_Witness ==
    /\ configured.op = "optional"
    /\ isContainer(parser.m_ref)
    /\ parser.m_ref.binds > 0
    /\ ObservedBound
    /\ ret.obs.cardinality = <<0, 1>>

\* C2: a bound parser on which no cardinality-setting call was made reports
\* (0,0) when its bound reference is a container and (0,1) otherwise.
C2_DefaultCardinality ==
    configured.op = "none" =>
        cardinality("bound", parser) = IF isContainer(parser.m_ref) THEN <<0, 0>> ELSE <<0, 1>>

\* A fresh container-bound parser whose cardinality() was read.
C2_Witness ==
    /\ configured.op = "none"
    /\ isContainer(parser.m_ref)
    /\ ObservedBound
    /\ ret.obs.cardinality = <<0, 0>>

\* C3: after a parse pass, validate() on the bound parser succeeds if and
\* only if min <= observed <= max, an unbounded max satisfying the upper
\* side.
C3_ValidateChecksCardinality ==
    (call.op = "validate" /\ call.who = "bound" /\ parsed) =>
        (ret.status = "ok" <=> (Min <= observed /\ (Unbounded \/ observed <= Max)))

\* C4: is_optional() is true if and only if min = 0 and max > 0 or max
\* denotes unbounded.
C4_OptionalIffMinZeroAndCapacity ==
    ObservedBound => (ret.obs.is_optional <=> (Min = 0 /\ (Max > 0 \/ Unbounded)))

\* C5 as stated: cardinality_count() returns max - min for every
\* cardinality the parser can report, and zero only when min = max.
C5_CountIsMaxMinusMin ==
    ObservedBound =>
        /\ ret.obs.cardinality_count = Max - Min
        /\ ret.obs.cardinality_count = 0 => Min = Max

\* C5 as amended: cardinality_count() returns max - min whenever
\* min <= max, and for every cardinality it returns zero only when
\* min = max.
C5_CountIsMaxMinusMinWhenOrdered ==
    ObservedBound =>
        /\ Min <= Max => ret.obs.cardinality_count = Max - Min
        /\ ret.obs.cardinality_count = 0 => Min = Max

\* cardinality_count() read on a parser with room for repetition.
C5_Witness ==
    /\ ObservedBound
    /\ Min = 1
    /\ Max = SIZE_MOD - 1
    /\ ret.obs.cardinality_count = SIZE_MOD - 2

\* C6: required(), optional(), cardinality(n) and cardinality(n,m) leave the
\* bound reference (and with it the destination and the number of bind()
\* calls), the hint and the description unchanged; operator() sets the
\* description and leaves the bound reference, the hint and the cardinality
\* unchanged; each returns the parser it was called on.
C6_FluentFrame ==
    [][ /\ call'.op \in {"required", "optional", "cardinality(n)", "cardinality(n,m)"} =>
               /\ parser'.m_ref = parser.m_ref
               /\ parser'.m_hint = parser.m_hint
               /\ parser'.m_description = parser.m_description
               /\ ret'.returns = "this"
        /\ call'.op = "operator()" =>
               /\ parser'.m_ref = parser.m_ref
               /\ parser'.m_hint = parser.m_hint
               /\ parser'.m_cardinality = parser.m_cardinality
               /\ parser'.m_description = call'.description
               /\ ret'.returns = "this"
      ]_vars

\* A description attached to a parser whose destination already holds
\* values and whose cardinality was configured.
C6_Witness ==
    /\ call.op = "operator()"
    /\ parser.m_description = "first"
    /\ parser.m_ref.dest # <<>>
    /\ parser.m_cardinality = <<2, 2>>
    /\ ret.returns = "this"

\* C7: parse(args, customize) makes exactly one virtual call, parse(exe_name,
\* tokens, customize) with args' executable name, the token stream built
\* over args with customize's delimiters and prefix, and customize itself;
\* it returns that call's result, does not call validate(), and leaves the
\* cardinality, the hint and the description unchanged.
C7_ParseDelegates ==
    [][ call'.op = "parse" =>
            LET tokens == token_iterator(call'.args, call'.customize.token_delimiters,
                                         call'.customize.option_prefix)
            IN  /\ dispatched' = <<[method |-> "parse",
                                    exe_name |-> call'.args.exe_name,
                                    tokens |-> tokens,
                                    customize |-> call'.customize]>>
                /\ ret'.result = virtual_parse(call'.who, call'.args.exe_name, tokens,
                                               call'.customize).result
                /\ ret'.status = "none"
                /\ parser'.m_cardinality = parser.m_cardinality
                /\ parser'.m_hint = parser.m_hint
                /\ parser'.m_description = parser.m_description
      ]_vars

\* A parse with a user customization that matched, on a configured parser.
C7_Witness ==
    /\ call.op = "parse"
    /\ call.customize = user_parser_customization
    /\ ret.result.type = "Matched"
    /\ ret.result.remainingTokens.pos = 2
    /\ parser.m_cardinality = <<1, 1>>
    /\ parser.m_description = "first"

\* C8: the parser that overrides nothing reports (0,1), is optional with
\* remaining capacity 1, validates, and has empty usage text, empty help
\* text and no clone; the bound parser differs only in cardinality().
C8_BaseDefaults ==
    /\ call.op = "validate" => ret.status = "ok"
    /\ call.op = "observe" =>
           /\ ret.obs.get_usage_text = ""
           /\ ret.obs.get_help_text = <<>>
           /\ ret.obs.clone = "nullptr"
    /\ (call.op = "observe" /\ call.who = "plain") =>
           /\ ret.obs.cardinality = <<0, 1>>
           /\ ret.obs.is_optional
           /\ ret.obs.cardinality_count = 1
    /\ ObservedBound => ret.obs.cardinality = parser.m_cardinality

\* The plain parser observed next to a bound parser configured differently.
C8_Witness ==
    /\ call.op = "observe"
    /\ call.who = "plain"
    /\ parser.m_cardinality = <<2, 0>>
    /\ ret.obs.is_optional

\* C9: cardinality(n,m) with n > m returns the parser, raises no error and
\* stores (n,m) as given, so the state after it has min > max.
C9_InvertedPairStored ==
    (call.op = "cardinality(n,m)" /\ call.n > call.m) =>
        /\ ret.returns = "this"
        /\ ret.status = "none"
        /\ cardinality("bound", parser) = <<call.n, call.m>>
        /\ Min > Max

\* cardinality(2, 1) was called.
C9_Witness ==
    /\ call.op = "cardinality(n,m)"
    /\ call.n = 2
    /\ call.m = 1
    /\ parser.m_cardinality = <<2, 1>>

\* C10: cardinality_count() is computed modulo 2^w: for min > max it returns
\* max - min + 2^w, a positive size_t; for the container default (0,0) and
\* after cardinality(n) it returns 0.
C10_CountWraps ==
    ObservedBound =>
        /\ ret.obs.cardinality_count \in 0 .. (SIZE_MOD - 1)
        /\ Min > Max =>
               /\ ret.obs.cardinality_count = Max - Min + SIZE_MOD
               /\ ret.obs.cardinality_count > 0
        /\ (configured.op = "none" /\ isContainer(parser.m_ref)) =>
               ret.obs.cardinality_count = 0
        /\ configured.op = "cardinality(n)" => ret.obs.cardinality_count = 0

\* cardinality_count() read after cardinality(2, 1).
C10_Witness ==
    /\ ObservedBound
    /\ parser.m_cardinality = <<2, 1>>
    /\ ret.obs.cardinality_count = SIZE_MOD - 1

====
